---- MODULE Spec2Model ----
(***************************************************************************)
(* Model of the MQ135 gas sensor library (src/MQ135.cpp).                  *)
(*                                                                         *)
(* The object holds _pin, _rzero, _rload and _atmoco2.  Every public       *)
(* method of the class is one action.  The analog input is the variable    *)
(* adc, which analogRead returns and which the environment changes.        *)
(*                                                                         *)
(* A float is modelled as a record [k, s, l]:                              *)
(*   k = "nan" | "inf" | "zero" | "fin"   (IEEE 754 class)                  *)
(*   s = 1 | -1                           (sign; 1 for nan)                *)
(*   l = log2 of the magnitude in units of 1/LogUnit, for "fin" only       *)
(* so that products, quotients and pow are computed on the logarithm, as   *)
(* a float computes them on mantissa and exponent, with rounding.          *)
(***************************************************************************)
EXTENDS Integers, Sequences, FiniteSets, TLC

(* ------------------------------------------------------------------ *)
(* Bounds of the model                                                 *)
(* ------------------------------------------------------------------ *)

\* fractional bits of the logarithm of a float's magnitude
LogBits == 10

\* setter and constructor arguments are -step, 0 and k * step for k in 1..MaxK
MaxK == 1

\* temperatures are 20 - MaxDT .. 20 + MaxDT, humidities 25 + 25*k, k in 0..MaxHk
MaxDT == 1

MaxHk == 0

\* raw samples besides 0 and 1023: 200*k for k in 1..MaxMid
MaxMid == 1

\* analog input pins 0..MaxPin
MaxPin == 0

\* the sweep of getCorrectionFactor: temperatures 20 - SweepT .. 20 + SweepT,
\* humidities 33 + 11*k for k in -3..SweepHk
SweepT == 20

SweepHk == 6

(* ------------------------------------------------------------------ *)
(* Constants of MQ135.h (the header is not part of src/; the values    *)
(* are the library's datasheet constants).  Values in 1/1000 for       *)
(* resistances and ppm, in 1/10^9 for the correction polynomial, in    *)
(* 1/10^4 for the exponent PARB.                                       *)
(* ------------------------------------------------------------------ *)

\* RLOAD 10.0 kOhm
RLOAD_m == 10000

\* RZERO 76.63 kOhm
RZERO_m == 76630

\* ATMOCO2 397.13 ppm
ATMOCO2_m == 397130

\* PARA 116.6020682
PARA_m == 116602

\* PARB 2.769034857
PARB_e4 == 27690

\* CORA 0.00035
CORA == 350000

\* CORB 0.02718
CORB == 27180000

\* CORC 1.39538
CORC == 1395380000

\* CORD 0.0018
CORD == 1800000

\* CORE -0.003333333
CORE == -3333333

\* CORF -0.001923077
CORF == -1923077

\* CORG 1.130128205
CORG == 1130128205

\* full scale of the 10 bit ADC (the literal 1023. in getResistance)
FullScale == 1023

\* branch boundary of getCorrectionFactor (t < 20)
TBoundary == 20

\* humidity reference of the low branch (h - 33.)
HRef == 33

(* ------------------------------------------------------------------ *)
(* float arithmetic                                                    *)
(* ------------------------------------------------------------------ *)

LogUnit == 2 ^ LogBits

MantUnit == 2 ^ 14

Abs(n) == IF n < 0 THEN 0 - n ELSE n

\* n / d rounded to nearest, d > 0
RoundDiv(n, d) == IF n >= 0 THEN (2 * n + d) \div (2 * d)
                  ELSE 0 - ((2 * (0 - n) + d) \div (2 * d))

RECURSIVE FloorLog2(_)
FloorLog2(n) == IF n < 2 THEN 0 ELSE 1 + FloorLog2(n \div 2)

\* the fractional bits of log2(x / MantUnit), MantUnit <= x < 2 * MantUnit,
\* by repeated squaring; i bits still to produce
RECURSIVE FracLog2(_, _)
FracLog2(x, i) ==
    IF i = 0 THEN 0
    ELSE LET sq == (x * x) \div MantUnit
         IN IF sq >= 2 * MantUnit
            THEN 2 ^ (i - 1) + FracLog2(sq \div 2, i - 1)
            ELSE FracLog2(sq, i - 1)

\* log2(n) in units of 1/LogUnit, n >= 1
Log2(n) ==
    LET e == FloorLog2(n)
        x == IF e >= 14 THEN n \div (2 ^ (e - 14)) ELSE n * 2 ^ (14 - e)
    IN e * LogUnit + FracLog2(x, LogBits)

NaN == [k |-> "nan", s |-> 1, l |-> 0]

Inf(sg) == [k |-> "inf", s |-> sg, l |-> 0]

Zero(sg) == [k |-> "zero", s |-> sg, l |-> 0]

Fin(sg, lg) == [k |-> "fin", s |-> sg, l |-> lg]

\* what a void method returns
Void == [k |-> "void", s |-> 1, l |-> 0]

\* the float n / scale, n an integer, scale >= 1
FromScaled(n, scale) ==
    IF n = 0 THEN Zero(1)
    ELSE Fin(IF n < 0 THEN -1 ELSE 1, Log2(Abs(n)) - Log2(scale))

FromMilli(n) == FromScaled(n, 1000)

\* x == 0 in C: true of both zeros, false of NaN
IsZero(x) == x.k = "zero"

FMul(a, b) ==
    CASE a.k = "nan" \/ b.k = "nan" -> NaN
      [] (a.k = "inf" /\ b.k = "zero") \/ (a.k = "zero" /\ b.k = "inf") -> NaN
      [] a.k = "inf" \/ b.k = "inf" -> Inf(a.s * b.s)
      [] a.k = "zero" \/ b.k = "zero" -> Zero(a.s * b.s)
      [] OTHER -> Fin(a.s * b.s, a.l + b.l)

FDiv(a, b) ==
    CASE a.k = "nan" \/ b.k = "nan" -> NaN
      [] (a.k = "inf" /\ b.k = "inf") \/ (a.k = "zero" /\ b.k = "zero") -> NaN
      [] a.k = "inf" \/ b.k = "zero" -> Inf(a.s * b.s)
      [] a.k = "zero" \/ b.k = "inf" -> Zero(a.s * b.s)
      [] OTHER -> Fin(a.s * b.s, a.l - b.l)

\* pow(x, y) of <math.h> for a non-integer exponent y = sg * num / den
FPow(x, sg, num, den) ==
    CASE x.k = "nan" -> NaN
      [] x.k = "zero" -> IF sg < 0 THEN Inf(1) ELSE Zero(1)
      [] x.k = "inf"  -> IF sg < 0 THEN Zero(1) ELSE Inf(1)
      [] x.s < 0      -> NaN
      [] OTHER        -> Fin(1, sg * RoundDiv(x.l * num, den))

(* ------------------------------------------------------------------ *)
(* The float values of the header's constants                          *)
(* ------------------------------------------------------------------ *)

RLOAD == FromMilli(RLOAD_m)

RZERO == FromMilli(RZERO_m)

ATMOCO2 == FromMilli(ATMOCO2_m)

PARA == FromMilli(PARA_m)

(* ------------------------------------------------------------------ *)
(* Inputs                                                              *)
(* ------------------------------------------------------------------ *)

Pins == 0 .. MaxPin

\* load resistances a caller passes: -22, 0, 22 kOhm, ...
RloadArgs == { FromMilli(k * 22000) : k \in -1 .. MaxK }

\* reference resistances a caller passes: -50, 0, 50 kOhm, ...
RzeroArgs == { FromMilli(k * 50000) : k \in -1 .. MaxK }

\* baselines a caller passes: -410, 0, 410 ppm, ...
PpmArgs == { FromMilli(k * 410000) : k \in -1 .. MaxK }

Temps == (TBoundary - MaxDT) .. (TBoundary + MaxDT)

Hums == { 25 + 25 * k : k \in 0 .. MaxHk }

SweepTemps == (TBoundary - SweepT) .. (TBoundary + SweepT)

SweepHums == { HRef + 11 * k : k \in -3 .. SweepHk }

\* what analogRead can return
Samples == {0, FullScale} \cup { 200 * k : k \in 1 .. MaxMid }

(* ------------------------------------------------------------------ *)
(* State                                                               *)
(* ------------------------------------------------------------------ *)

VARIABLES
    _pin,       \* MQ135::_pin
    _rzero,     \* MQ135::_rzero
    _rload,     \* MQ135::_rload
    _atmoco2,   \* MQ135::_atmoco2
    adc,        \* the sample analogRead(_pin) returns now
    op,         \* the call that returned last
    arg,        \* its arguments: [v, t, h]
    ret,        \* its return value
    reads,      \* the analogRead calls it made
    calib       \* progress of measureRZero -> setRzero(result) -> getPPM

vars == << _pin, _rzero, _rload, _atmoco2, adc, op, arg, ret, reads, calib >>

fields == << _pin, _rzero, _rload, _atmoco2 >>

NoArg == [v |-> Void, t |-> 0, h |-> 0]

ArgV(x) == [v |-> x, t |-> 0, h |-> 0]

ArgTH(t, h) == [v |-> Void, t |-> t, h |-> h]

\* a call returns: r with n reads of the analog input
Return(name, a, r, n) ==
    /\ op' = name
    /\ arg' = a
    /\ ret' = r
    /\ reads' = n

(* ------------------------------------------------------------------ *)
(* Constructors                                                        *)
(* ------------------------------------------------------------------ *)

\* MQ135::MQ135(uint8_t pin)
Construct1(pin) ==
    /\ _pin = pin
    /\ _rzero = RZERO
    /\ _rload = RLOAD
    /\ _atmoco2 = ATMOCO2
    /\ op = "MQ135_1"
    /\ arg = NoArg

\* MQ135::MQ135(uint8_t pin, float rl, float ppm)
Construct3(pin, rl, ppm) ==
    /\ _pin = pin
    /\ _rzero = RZERO
    /\ _rload = rl
    /\ _atmoco2 = ppm
    /\ op = "MQ135_3"
    /\ arg = NoArg

Init ==
    /\ adc \in Samples
    /\ ret = Void
    /\ reads = 0
    /\ calib = "none"
    /\ \/ \E pin \in Pins : Construct1(pin)
       \/ \E pin \in Pins, rl \in RloadArgs, ppm \in PpmArgs : Construct3(pin, rl, ppm)

(* ------------------------------------------------------------------ *)
(* Accessors                                                           *)
(* ------------------------------------------------------------------ *)

getAtmoco2 == IF IsZero(_atmoco2) THEN ATMOCO2 ELSE _atmoco2

\* a setAtmoco2 that tests ppm <= 0 and so rejects negative values
setAtmoco2_positive(ppm) == IF IsZero(ppm) \/ ppm.s < 0 THEN ATMOCO2 ELSE ppm

\* the value setAtmoco2(ppm) stores
setAtmoco2(ppm) == IF IsZero(ppm) THEN ATMOCO2 ELSE ppm

getRload == IF IsZero(_rload) THEN RLOAD ELSE _rload

\* a setRload that stores its argument as it is, 0 as a sentinel
setRload_raw(r) == r

\* the value setRload(r) stores
setRload(r) == IF IsZero(r) THEN RLOAD ELSE r

getRzero == IF IsZero(_rzero) THEN RZERO ELSE _rzero

\* a setRzero that stores its argument as it is, 0 as a sentinel
setRzero_raw(r) == r

\* the value setRzero(r) stores
setRzero(r) == IF IsZero(r) THEN RZERO ELSE r

GetAtmoco2 ==
    /\ Return("getAtmoco2", NoArg, getAtmoco2, 0)
    /\ calib' = "none"
    /\ UNCHANGED << fields, adc >>

\* a setAtmoco2 that also resets the calibration
SetAtmoco2_resets ==
    \E ppm \in PpmArgs :
        /\ _atmoco2' = setAtmoco2(ppm)
        /\ _rzero' = RZERO
        /\ Return("setAtmoco2", ArgV(ppm), Void, 0)
        /\ calib' = "none"
        /\ UNCHANGED << _pin, _rload, adc >>

SetAtmoco2 ==
    \E ppm \in PpmArgs :
        /\ _atmoco2' = setAtmoco2(ppm)
        /\ Return("setAtmoco2", ArgV(ppm), Void, 0)
        /\ calib' = "none"
        /\ UNCHANGED << _pin, _rzero, _rload, adc >>

GetRload ==
    /\ Return("getRload", NoArg, getRload, 0)
    /\ calib' = "none"
    /\ UNCHANGED << fields, adc >>

SetRload ==
    \E r \in RloadArgs :
        /\ _rload' = setRload(r)
        /\ Return("setRload", ArgV(r), Void, 0)
        /\ calib' = "none"
        /\ UNCHANGED << _pin, _rzero, _atmoco2, adc >>

GetRzero ==
    /\ Return("getRzero", NoArg, getRzero, 0)
    /\ calib' = "none"
    /\ UNCHANGED << fields, adc >>

\* the caller passes a value of its own, or the result of the calibration
\* measurement that has just returned
SetRzero ==
    \E r \in RzeroArgs \cup (IF op = "measureRZero" THEN {ret} ELSE {}) :
        /\ _rzero' = setRzero(r)
        /\ Return("setRzero", ArgV(r), Void, 0)
        /\ calib' = IF calib = "measured" /\ r = ret THEN "committed" ELSE "none"
        /\ UNCHANGED << _pin, _rload, _atmoco2, adc >>

(* ------------------------------------------------------------------ *)
(* Conversions                                                         *)
(* ------------------------------------------------------------------ *)

\* a branch test t <= 20
LowBranch_inclusive(t) == t <= TBoundary

\* t < 20 of getCorrectionFactor
LowBranch(t) == t < TBoundary

\* the correction factor in units of 10^-9
CorrectionScaled(t, h) ==
    IF LowBranch(t)
    THEN CORA * t * t - CORB * t + CORC - (h - HRef) * CORD
    ELSE CORE * t + CORF * h + CORG

\* the float values of the correction factor, computed once
CorrectionTable ==
    [t \in Temps \cup SweepTemps, h \in Hums \cup SweepHums |->
        FromScaled(CorrectionScaled(t, h), 10 ^ 9)]

getCorrectionFactor(t, h) == CorrectionTable[t, h]

\* analogRead(_pin)
analogRead == adc

\* log2 of the integers a sample and its complement can be, computed once
SampleLog == [n \in 1 .. FullScale |-> Log2(n)]

\* a divider that guards the division, reading a sample of 0 as 1
DividerRatio_guarded(val) ==
    CASE val = 0 -> Fin(1, SampleLog[FullScale - 1] - SampleLog[1])
      [] val = FullScale -> Zero(1)
      [] OTHER -> Fin(1, SampleLog[FullScale - val] - SampleLog[val])

\* (1023./(float)val) - 1. for a sample val in 0..1023: the quotient
\* 1023/0 is +infinity (IEEE 754), and infinity - 1 is infinity
DividerRatio(val) ==
    CASE val = 0 -> Inf(1)
      [] val = FullScale -> Zero(1)
      [] OTHER -> Fin(1, SampleLog[FullScale - val] - SampleLog[val])

\* the load resistance getResistance multiplies by
ResistanceLoad == _rload

\* the baseline the calibration measurements use
CalibrationBaseline == _atmoco2

\* the reference resistance the concentration curve divides by
CurveReference == _rzero

\* a conversion's result v and the analogRead calls n it made
getResistance ==
    [v |-> FMul(DividerRatio(analogRead), ResistanceLoad), n |-> 1]

getCorrectedResistance(t, h) ==
    LET r == getResistance
    IN [v |-> FDiv(r.v, getCorrectionFactor(t, h)), n |-> r.n]

getPPM ==
    LET r == getResistance
    IN [v |-> FMul(PARA, FPow(FDiv(r.v, CurveReference), -1, PARB_e4, 10000)),
        n |-> r.n]

\* a getCorrectedPPM that reads the sensor again for the raw resistance
getCorrectedPPM_rereads(t, h) ==
    LET r == getCorrectedResistance(t, h)
    IN [v |-> FMul(PARA, FPow(FDiv(r.v, CurveReference), -1, PARB_e4, 10000)),
        n |-> r.n + getResistance.n]

getCorrectedPPM(t, h) ==
    LET r == getCorrectedResistance(t, h)
    IN [v |-> FMul(PARA, FPow(FDiv(r.v, CurveReference), -1, PARB_e4, 10000)),
        n |-> r.n]

measureRZero ==
    LET r == getResistance
    IN [v |-> FMul(r.v, FPow(FDiv(CalibrationBaseline, PARA), 1, 10000, PARB_e4)),
        n |-> r.n]

measureCorrectedRZero(t, h) ==
    LET r == getCorrectedResistance(t, h)
    IN [v |-> FMul(r.v, FPow(FDiv(CalibrationBaseline, PARA), 1, 10000, PARB_e4)),
        n |-> r.n]

CallCorrectionFactor(T, H) ==
    \E t \in T, h \in H :
        /\ Return("getCorrectionFactor", ArgTH(t, h), getCorrectionFactor(t, h), 0)
        /\ calib' = "none"
        /\ UNCHANGED << fields, adc >>

GetCorrectionFactor == CallCorrectionFactor(Temps, Hums)

GetResistance ==
    /\ Return("getResistance", NoArg, getResistance.v, getResistance.n)
    /\ calib' = "none"
    /\ UNCHANGED << fields, adc >>

GetCorrectedResistance ==
    \E t \in Temps, h \in Hums :
        LET r == getCorrectedResistance(t, h)
        IN /\ Return("getCorrectedResistance", ArgTH(t, h), r.v, r.n)
           /\ calib' = "none"
           /\ UNCHANGED << fields, adc >>

GetPPM ==
    /\ Return("getPPM", NoArg, getPPM.v, getPPM.n)
    /\ calib' = IF calib = "committed" THEN "readback" ELSE "none"
    /\ UNCHANGED << fields, adc >>

GetCorrectedPPM ==
    \E t \in Temps, h \in Hums :
        LET r == getCorrectedPPM(t, h)
        IN /\ Return("getCorrectedPPM", ArgTH(t, h), r.v, r.n)
           /\ calib' = "none"
           /\ UNCHANGED << fields, adc >>

\* a measureRZero that commits what it measured
MeasureRZero_commits ==
    /\ Return("measureRZero", NoArg, measureRZero.v, measureRZero.n)
    /\ _rzero' = setRzero(measureRZero.v)
    /\ calib' = "measured"
    /\ UNCHANGED << _pin, _rload, _atmoco2, adc >>

MeasureRZero ==
    /\ Return("measureRZero", NoArg, measureRZero.v, measureRZero.n)
    /\ calib' = "measured"
    /\ UNCHANGED << fields, adc >>

MeasureCorrectedRZero ==
    \E t \in Temps, h \in Hums :
        LET r == measureCorrectedRZero(t, h)
        IN /\ Return("measureCorrectedRZero", ArgTH(t, h), r.v, r.n)
           /\ calib' = "none"
           /\ UNCHANGED << fields, adc >>

\* the environment: the sensor's output voltage changes
SensorChange ==
    /\ adc' \in Samples \ {adc}
    /\ Return("sensor", NoArg, Void, 0)
    /\ calib' = "none"
    /\ UNCHANGED fields

Next ==
    \/ GetAtmoco2
    \/ SetAtmoco2
    \/ GetRload
    \/ SetRload
    \/ GetRzero
    \/ SetRzero
    \/ GetCorrectionFactor
    \/ GetResistance
    \/ GetCorrectedResistance
    \/ GetPPM
    \/ GetCorrectedPPM
    \/ MeasureRZero
    \/ MeasureCorrectedRZero
    \/ SensorChange

Spec == Init /\ [][Next]_vars

(* ------------------------------------------------------------------ *)
(* getCorrectionFactor alone, swept over a range of temperatures and   *)
(* humidities on a freshly constructed object                          *)
(* ------------------------------------------------------------------ *)

InitCF == Init /\ op = "MQ135_1"

SweepCorrectionFactor == CallCorrectionFactor(SweepTemps, SweepHums)

NextCF == SweepCorrectionFactor

SpecCF == InitCF /\ [][NextCF]_vars

(* ------------------------------------------------------------------ *)
(* Properties                                                          *)
(* ------------------------------------------------------------------ *)

\* the methods that are not setters
ReadOnlyOps ==
    { "getAtmoco2", "getRload", "getRzero", "getCorrectionFactor",
      "getResistance", "getCorrectedResistance", "getPPM", "getCorrectedPPM",
      "measureRZero", "measureCorrectedRZero" }

\* the methods that convert a sample
SamplingOps ==
    { "getResistance", "getCorrectedResistance", "getPPM", "getCorrectedPPM",
      "measureRZero", "measureCorrectedRZero" }

\* the calls that take no sample
NonSamplingOps ==
    { "MQ135_1", "MQ135_3", "getAtmoco2", "setAtmoco2", "getRload", "setRload",
      "getRzero", "setRzero", "getCorrectionFactor" }

\* a and b are finite, of one sign, and equal to within 4/LogUnit in log2
\* (about 0.3 percent)
Approx(a, b) ==
    /\ a.k = "fin"
    /\ b.k = "fin"
    /\ a.s = b.s
    /\ Abs(a.l - b.l) <= 4

\* C1: for each calibration parameter, a getter called right after the
\* setter returns the default if the setter was given 0, and exactly the
\* value the setter was given otherwise (negative values included).
C1_SetThenGet ==
    [][ /\ (op = "setRload" /\ op' = "getRload") =>
               ret' = (IF IsZero(arg.v) THEN RLOAD ELSE arg.v)
        /\ (op = "setRzero" /\ op' = "getRzero") =>
               ret' = (IF IsZero(arg.v) THEN RZERO ELSE arg.v)
        /\ (op = "setAtmoco2" /\ op' = "getAtmoco2") =>
               ret' = (IF IsZero(arg.v) THEN ATMOCO2 ELSE arg.v) ]_vars

\* a getter has returned a negative value, which only its setter (or, for
\* the load and the baseline, the constructor) can have stored
C1_Witness ==
    /\ op = "getRzero"
    /\ ret = FromMilli(-50000)

\* C2: every conversion reads a calibration parameter as its getter returns
\* it, the default standing in for a stored zero: getResistance multiplies
\* by getRload, the calibration measurements use getAtmoco2, the
\* concentrations divide by getRzero.
C2_ReadsSubstituteDefault ==
    LET rs == FMul(DividerRatio(adc), getRload)
        cf == getCorrectionFactor(arg.t, arg.h)
        curve(r) == FMul(PARA, FPow(FDiv(r, getRzero), -1, PARB_e4, 10000))
        inverse(r) == FMul(r, FPow(FDiv(getAtmoco2, PARA), 1, 10000, PARB_e4))
    IN /\ op = "getResistance" => ret = rs
       /\ op = "getCorrectedResistance" => ret = FDiv(rs, cf)
       /\ op = "getPPM" => ret = curve(rs)
       /\ op = "getCorrectedPPM" => ret = curve(FDiv(rs, cf))
       /\ op = "measureRZero" => ret = inverse(rs)
       /\ op = "measureCorrectedRZero" => ret = inverse(FDiv(rs, cf))

\* C3: measureRZero, then setRzero of its result, then getPPM, at one
\* sample in 1..1023, returns the baseline getAtmoco2 returns, to within
\* the tolerance.
C3_RoundTrip ==
    (calib = "readback" /\ adc \in 1 .. FullScale) => Approx(ret, getAtmoco2)

\* C4: a call of a method that is not a setter leaves _pin, _rzero, _rload
\* and _atmoco2 as they were.
C4_ReadOnlyFrame ==
    [][ op' \in ReadOnlyOps => fields' = fields ]_vars

\* measureRZero has returned a resistance that is not the stored _rzero
C4_Witness ==
    /\ op = "measureRZero"
    /\ ret.k = "fin"
    /\ ret # _rzero

\* C5: a conversion of a sample makes exactly one analogRead call, and the
\* constructors, the accessors and getCorrectionFactor make none.
C5_OneRead ==
    /\ op \in SamplingOps => reads = 1
    /\ op \in NonSamplingOps => reads = 0

\* the conversion with the longest call chain has returned
C5_Witness ==
    /\ op = "getCorrectedPPM"
    /\ reads = 1
    /\ ret.k = "fin"

\* C6: getCorrectionFactor(t, h) is CORA*t*t - CORB*t + CORC - (h-33)*CORD
\* for t < 20 and CORE*t + CORF*h + CORG for t >= 20, t = 20 included, for
\* every humidity h.
C6_CorrectionFactor ==
    op = "getCorrectionFactor" =>
        ret = FromScaled(
                IF arg.t < 20
                THEN CORA * arg.t * arg.t - CORB * arg.t + CORC - (arg.h - 33) * CORD
                ELSE CORE * arg.t + CORF * arg.h + CORG,
                10 ^ 9)

\* the factor at exactly 20 degrees, where the two branches differ
C6_Witness ==
    /\ op = "getCorrectionFactor"
    /\ arg.t = 20
    /\ ret = FromScaled(CORE * 20 + CORF * arg.h + CORG, 10 ^ 9)
    /\ ret # FromScaled(CORA * 400 - CORB * 20 + CORC - (arg.h - 33) * CORD, 10 ^ 9)

\* C7: at a raw sample of 0 getResistance returns an infinity or a NaN,
\* whatever the stored load resistance (a stored 0 included), and changes
\* no field.
C7_ZeroSample ==
    [][ (op' = "getResistance" /\ adc' = 0) =>
            /\ ret'.k \in {"inf", "nan"}
            /\ fields' = fields ]_vars

\* getResistance at sample 0 with the load resistance 0 the constructor stored
C7_Witness ==
    /\ op = "getResistance"
    /\ adc = 0
    /\ IsZero(_rload)
    /\ ret = NaN

\* C8: a setter given 0 stores the default, a setter given v # 0 stores v,
\* so the field a setter wrote is not zero; no call turns a non-zero field
\* into zero, and the one-argument constructor stores no zero.
C8_SetterStores ==
    /\ [](/\ op = "setRload" =>
                /\ _rload = (IF IsZero(arg.v) THEN RLOAD ELSE arg.v)
                /\ ~IsZero(_rload)
          /\ op = "setRzero" =>
                /\ _rzero = (IF IsZero(arg.v) THEN RZERO ELSE arg.v)
                /\ ~IsZero(_rzero)
          /\ op = "setAtmoco2" =>
                /\ _atmoco2 = (IF IsZero(arg.v) THEN ATMOCO2 ELSE arg.v)
                /\ ~IsZero(_atmoco2)
          /\ op = "MQ135_1" =>
                ~(IsZero(_rload) \/ IsZero(_rzero) \/ IsZero(_atmoco2)))
    /\ [][ /\ IsZero(_rload') => IsZero(_rload)
           /\ IsZero(_rzero') => IsZero(_rzero)
           /\ IsZero(_atmoco2') => IsZero(_atmoco2) ]_vars

\* setRload(0) has stored RLOAD
C8_Witness ==
    /\ op = "setRload"
    /\ IsZero(arg.v)
    /\ _rload = RLOAD

\* C9: the stored _rzero is never zero, so getRzero returns the stored
\* value and the concentration curve never divides by a zero reference.
C9_RzeroNonZero ==
    /\ ~IsZero(_rzero)
    /\ getRzero = _rzero
    /\ ~IsZero(CurveReference)

\* setRzero has been given the zero that measureRZero returned at full scale
C9_Witness ==
    /\ op = "setRzero"
    /\ calib = "committed"
    /\ IsZero(arg.v)
    /\ adc = FullScale

\* C10: a setter changes no field but its own, and no call changes _pin.
C10_SetterFrame ==
    [][ /\ op' = "setRload" => << _pin, _rzero, _atmoco2 >>' = << _pin, _rzero, _atmoco2 >>
        /\ op' = "setRzero" => << _pin, _rload, _atmoco2 >>' = << _pin, _rload, _atmoco2 >>
        /\ op' = "setAtmoco2" => << _pin, _rload, _rzero >>' = << _pin, _rload, _rzero >>
        /\ _pin' = _pin ]_vars

\* setRload has run on an object whose other two parameters are not the defaults
C10_Witness ==
    /\ op = "setRload"
    /\ _rload = FromMilli(22000)
    /\ _rzero = FromMilli(50000)
    /\ _atmoco2 = FromMilli(410000)

====
